---- MODULE Spec2Model ----
(***************************************************************************)
(* A model of mlib.py, a scalar math library of pure functions.  A client  *)
(* calls one function; the call runs its precondition (the assert at the   *)
(* top of every function), then its body, loop iteration by loop iteration,*)
(* and ends by returning a value or by raising an exception.               *)
(*                                                                         *)
(* Numbers.  A Python number is modelled as a record [k, m, e]:            *)
(*   k = "fin"  : the finite value m * 2^e (every float and every int has  *)
(*                this form; an int has e = 0),                            *)
(*   k = "nan"  : NaN,                                                     *)
(*   k = "inf"  : +infinity (m = 1) or -infinity (m = -1),                 *)
(*   k = "bool" : True (m = 1) or False (m = 0).                           *)
(***************************************************************************)
EXTENDS Integers, Sequences, FiniteSets

VARIABLES
    call,   \* the call the client made: [fn, args]
    stack,  \* the frames of the functions now running, innermost last
    data,   \* the caller-owned list handed to median / mode
    out     \* how the client's call ended: nothing yet, a value, an exception

vars == <<call, stack, data, out>>

\* ------------------------------------------------------------------ bounds
MaxInt == 2          \* generic scalar arguments are the ints -MaxInt..MaxInt
MaxLen == 4          \* longest list handed to median / mode
MaxVal == 3          \* list elements are 1..MaxVal
MaxGcdArg == 6       \* gcd / lcm arguments are -MaxGcdArg..MaxGcdArg
MaxPowBase == 3      \* pow bases are -MaxPowBase..MaxPowBase
MaxPower == 4        \* pow powers are -2..MaxPower
MaxExpN == 12        \* exp arguments are n / 2^ExpFracBits, |n| <= MaxExpN
ExpFracBits == 2
MaxLnM == 5          \* ln arguments are m * 2^e, m <= MaxLnM, |e| <= MaxLnE
MaxLnE == 3
MaxSqrtQ == 16       \* large sqrt arguments are q * SqrtUnit, q <= MaxSqrtQ
SqrtUnit == 67108864

\* ----------------------------------------------------------------- numbers
Fin(m, e) == [k |-> "fin", m |-> m, e |-> e]
NaN == [k |-> "nan", m |-> 0, e |-> 0]
PosInf == [k |-> "inf", m |-> 1, e |-> 0]
NegInf == [k |-> "inf", m |-> -1, e |-> 0]
PyBool(b) == [k |-> "bool", m |-> (IF b THEN 1 ELSE 0), e |-> 0]

NonFinite == {NaN, PosInf, NegInf}

RECURSIVE Pow2(_)
Pow2(n) == IF n <= 0 THEN 1 ELSE 2 * Pow2(n - 1)

MinE(x, y) == IF x.e < y.e THEN x.e ELSE y.e
\* the mantissa of the finite x at the (smaller or equal) exponent e0
Scaled(x, e0) == x.m * Pow2(x.e - e0)

NumEq(x, y) == Scaled(x, MinE(x, y)) = Scaled(y, MinE(x, y))
NumLt(x, y) == Scaled(x, MinE(x, y)) < Scaled(y, MinE(x, y))
NumSub(x, y) == Fin(Scaled(x, MinE(x, y)) - Scaled(y, MinE(x, y)), MinE(x, y))

AbsInt(n) == IF n < 0 THEN -n ELSE n
SignInt(n) == IF n < 0 THEN -1 ELSE IF n > 0 THEN 1 ELSE 0

\* ---------------------------------------------------------------- outcomes
NoVal == Fin(0, 0)
Pending == [kind |-> "none", val |-> NoVal, exc |-> ""]
Ret(v) == [kind |-> "ret", val |-> v, exc |-> ""]
Raise(e) == [kind |-> "raise", val |-> NoVal, exc |-> e]

\* ------------------------------------------------- Python's operators used
\* x != y: true whenever a NaN is involved.
PyNe(x, y) ==
    IF x.k = "nan" \/ y.k = "nan" THEN TRUE
    ELSE IF x.k # y.k THEN TRUE
    ELSE IF x.k = "fin" THEN ~NumEq(x, y)
    ELSE x.m # y.m

\* x < y: false whenever a NaN is involved.
PyLt(x, y) ==
    IF x.k = "nan" \/ y.k = "nan" THEN FALSE
    ELSE IF x.k = "inf" THEN x.m < 0 /\ ~(y.k = "inf" /\ y.m < 0)
    ELSE IF y.k = "inf" THEN y.m > 0
    ELSE NumLt(x, y)

PyLe(x, y) ==
    IF x.k = "nan" \/ y.k = "nan" THEN FALSE
    ELSE IF x.k = "fin" /\ y.k = "fin" THEN ~NumLt(y, x)
    ELSE ~PyLt(y, x)

\* x / y, true division.  A zero divisor raises, whatever the dividend; NaN
\* and inf/inf give NaN.  Of finite quotients only the exact ones are
\* representable here; the library's classifiers only ever divide a by a.
PyDiv(x, y) ==
    IF y.k = "fin" /\ y.m = 0 THEN Raise("ZeroDivisionError")
    ELSE IF x.k = "nan" \/ y.k = "nan" THEN Ret(NaN)
    ELSE IF x.k = "inf" /\ y.k = "inf" THEN Ret(NaN)
    ELSE IF x.k = "inf" THEN Ret(IF x.m * SignInt(y.m) > 0 THEN PosInf ELSE NegInf)
    ELSE IF y.k = "inf" THEN Ret(Fin(0, 0))
    ELSE Ret(Fin(SignInt(x.m) * SignInt(y.m) * (AbsInt(x.m) \div AbsInt(y.m)),
                 x.e - y.e))

\* ------------------------------------------------------------- classifiers
is_nan(a) == Ret(PyBool(PyNe(a, a)))

is_infinite(a) ==
    LET q == PyDiv(a, a)
    IN  IF q.kind = "raise" THEN q ELSE Ret(PyBool(PyNe(q.val, q.val)))

\* not is_infinite(a) and not is_nan(a): is_infinite runs first, and its
\* exception, if any, is the call's.
is_finite(a) ==
    LET inf == is_infinite(a)
    IN  IF inf.kind = "raise" THEN inf
        ELSE IF inf.val = PyBool(TRUE) THEN Ret(PyBool(FALSE))
        ELSE Ret(PyBool(is_nan(a).val = PyBool(FALSE)))

Classifiers == {"is_finite", "is_infinite", "is_nan"}

Classify(f, a) ==
    IF f = "is_finite" THEN is_finite(a)
    ELSE IF f = "is_infinite" THEN is_infinite(a)
    ELSE is_nan(a)

\* ----------------------------------------------------------- preconditions
Unary == {"to_bits", "to_float", "to_radian", "to_degree", "floor", "ceil",
          "round", "abs", "sqrt", "isqrt", "qisqrt", "fact", "is_prime",
          "sin", "cos", "tan", "sinh", "cosh", "tanh", "asin", "acos", "atan",
          "asinh", "acosh", "atanh", "sec", "csc", "cot", "sech", "csch",
          "coth", "exp", "ln", "log2", "log10"}
Binary == {"gcd", "lcm", "rem", "fdiv", "pow", "atan2", "min", "max", "log"}
Ternary == {"clamp"}
ScalarFns == Unary \cup Binary \cup Ternary

Arity(f) == IF f \in Unary THEN 1 ELSE IF f \in Binary THEN 2 ELSE 3

\* The operands `assert is_finite(x) and is_finite(y) ...` tests, in order,
\* with Python's short-circuit `and`: "ok" when all are finite, else the
\* exception the first failing operand ends the assert with.
RECURSIVE AssertFinite(_)
AssertFinite(xs) ==
    IF xs = <<>> THEN "ok"
    ELSE LET r == is_finite(Head(xs))
         IN  IF r.kind = "raise" THEN r.exc
             ELSE IF r.val = PyBool(FALSE) THEN "AssertionError"
             ELSE AssertFinite(Tail(xs))

\* What follows the is_finite operands in the function's assert.
Domain(f, xs) ==
    IF f = "sqrt" THEN PyLe(Fin(0, 0), xs[1])
    ELSE IF f \in {"asin", "acos"} THEN PyLe(Fin(-1, 0), xs[1]) /\ PyLe(xs[1], Fin(1, 0))
    ELSE IF f = "acosh" THEN PyLe(Fin(1, 0), xs[1])
    ELSE IF f = "atanh" THEN PyLt(Fin(-1, 0), xs[1]) /\ PyLt(xs[1], Fin(1, 0))
    ELSE IF f = "ln" THEN PyLt(Fin(0, 0), xs[1])
    ELSE IF f \in {"rem", "fdiv"} THEN PyLt(Fin(0, 0), xs[2])
    ELSE IF f \in {"median", "mode"} THEN PyLt(Fin(0, 0), xs[1])
    ELSE TRUE

\* Precondition with a fault: the assert tests only its first operand
Precondition_FirstOnly(f, xs) ==
    LET fin == AssertFinite(<<xs[1]>>)
    IN  IF fin # "ok" THEN fin
        ELSE IF Domain(f, xs) THEN "ok" ELSE "AssertionError"

Precondition(f, xs) ==
    LET fin == AssertFinite(xs)
    IN  IF fin # "ok" THEN fin
        ELSE IF Domain(f, xs) THEN "ok" ELSE "AssertionError"

\* ------------------------------------------------------------------ frames
Frame(f, pc, loc) == [fn |-> f, pc |-> pc, loc |-> loc]
Top == stack[Len(stack)]
Running(f, pc) == stack # <<>> /\ Top.fn = f /\ Top.pc = pc
SetTop(frame) == [stack EXCEPT ![Len(stack)] = frame]

\* gcd, lines 83-84: if a < 0: a = -a
NonNeg(n) == IF n < 0 THEN -n ELSE n

\* a float known only to lie in the interval [lo, hi] (sqrt's iterate)
Between(lo, hi) == [k |-> "between", m |-> lo, e |-> hi]

\* the value exp returns: its series sum, always positive and not modelled
\* numerically, times the factor pow(2, k) gave
SeriesTimes(factor) == [k |-> "series_times", m |-> factor, e |-> 0]

\* The frame a function starts its body with, once its assert has passed.
Entry(f, xs) ==
    IF f = "gcd" THEN
        Frame(f, "loop", [a |-> NonNeg(xs[1].m), b |-> NonNeg(xs[2].m)])
    ELSE IF f = "lcm" THEN
        Frame(f, "call_gcd", [a |-> xs[1].m, b |-> xs[2].m, result |-> 0])
    ELSE IF f = "pow" THEN
        Frame(f, "start", [base |-> xs[1].m, power |-> xs[2].m, product |-> 0, i |-> 0])
    ELSE IF f = "sqrt" THEN
        Frame(f, "loop", [a |-> xs[1].m, b |-> Between(xs[1].m, xs[1].m), i |-> 1])
    ELSE IF f = "exp" THEN
        Frame(f, "start", [a |-> xs[1], k |-> 0, factor |-> 0])
    ELSE IF f = "ln" THEN
        Frame(f, "start", [a |-> xs[1], exp |-> 0])
    ELSE IF f = "median" THEN
        Frame(f, "sort", [size |-> xs[1].m, i |-> 0, j |-> 0])
    ELSE IF f = "mode" THEN
        Frame(f, "scan", [mode |-> data'[1], max_count |-> 1, current_count |-> 1, i |-> 1])
    ELSE Frame(f, "body", [a |-> 0])

\* Calling f(xs) above the frames `below`: the assert either lets the body
\* start or raises, and nothing in the library catches an exception.
Enter(f, xs, below) ==
    LET p == Precondition(f, xs)
    IN  IF p = "ok"
        THEN stack' = Append(below, Entry(f, xs)) /\ out' = Pending
        ELSE stack' = <<>> /\ out' = Raise(p)

\* The caller's frame once the call it was waiting for has returned v.
Resume(frame, v) ==
    IF frame.fn = "lcm"
    THEN [frame EXCEPT !.pc = "after_gcd", !.loc.result = v.m]
    ELSE [frame EXCEPT !.pc = "after_pow", !.loc.factor = v.m]

\* The running function returns v: to its caller, or to the client.
Leave(v) ==
    IF Len(stack) = 1
    THEN stack' = <<>> /\ out' = Ret(v)
    ELSE /\ stack' = <<Resume(stack[Len(stack) - 1], v)>>
         /\ UNCHANGED out

\* ------------------------------------------------------------ client calls
Ints(n) == {Fin(i, 0) : i \in -n .. n}
Scalars == Ints(MaxInt) \cup NonFinite

ArgsOf(f) ==
    IF f \in {"gcd", "lcm"} THEN [1 .. 2 -> Ints(MaxGcdArg) \cup NonFinite]
    ELSE IF f = "pow" THEN
        {<<b, p>> : b \in Ints(MaxPowBase) \cup NonFinite,
                    p \in {Fin(n, 0) : n \in -2 .. MaxPower} \cup NonFinite}
    ELSE IF f = "sqrt" THEN
        {<<x>> : x \in Scalars \cup {Fin(q * SqrtUnit, 0) : q \in 1 .. MaxSqrtQ}}
    ELSE IF f = "exp" THEN
        {<<x>> : x \in {Fin(n, -ExpFracBits) : n \in -MaxExpN .. MaxExpN} \cup NonFinite}
    ELSE IF f = "ln" THEN
        {<<x>> : x \in {Fin(m, e) : m \in -1 .. MaxLnM, e \in -MaxLnE .. MaxLnE}
                       \cup NonFinite}
    ELSE [1 .. Arity(f) -> Scalars]

Lists == UNION {[1 .. n -> 1 .. MaxVal] : n \in 0 .. MaxLen}

Idle == call.fn = "none"

CallClassifier(f, x) ==
    /\ Idle
    /\ call' = [fn |-> f, args |-> <<x>>]
    /\ out' = Classify(f, x)
    /\ UNCHANGED <<stack, data>>

CallScalar(f, xs) ==
    /\ Idle
    /\ call' = [fn |-> f, args |-> xs]
    /\ data' = data
    /\ Enter(f, xs, <<>>)

\* median(data) / mode(data): the assert tests len(data)
CallStat(f, d) ==
    /\ Idle
    /\ call' = [fn |-> f, args |-> d]
    /\ data' = d
    /\ Enter(f, <<Fin(Len(d), 0)>>, <<>>)

\* --------------------------------------------------------------------- gcd
\* while b != 0: temp = b; b = a % b; a = temp
GcdStep ==
    /\ Running("gcd", "loop")
    /\ Top.loc.b # 0
    /\ stack' = SetTop([Top EXCEPT !.loc.a = Top.loc.b,
                                   !.loc.b = Top.loc.a % Top.loc.b])
    /\ UNCHANGED <<call, data, out>>

GcdReturn ==
    /\ Running("gcd", "loop")
    /\ Top.loc.b = 0
    /\ Leave(Fin(Top.loc.a, 0))
    /\ UNCHANGED <<call, data>>

\* --------------------------------------------------------------------- lcm
\* result = gcd(a, b)
LcmCallGcd ==
    /\ Running("lcm", "call_gcd")
    /\ Enter("gcd", <<Fin(Top.loc.a, 0), Fin(Top.loc.b, 0)>>, stack)
    /\ UNCHANGED <<call, data>>

\* LcmValue with a fault: the quotient times b, whatever the sign of a * b
LcmValue_NoNegate(a, b, result) == (a \div result) * b

\* a // result * b if a * b >= 0 else -(a // result * b)
LcmValue(a, b, result) ==
    IF a * b >= 0 THEN (a \div result) * b ELSE -((a \div result) * b)

LcmReturn ==
    /\ Running("lcm", "after_gcd")
    /\ Leave(IF Top.loc.result = 0 THEN Fin(0, 0)
             ELSE Fin(LcmValue(Top.loc.a, Top.loc.b, Top.loc.result), 0))
    /\ UNCHANGED <<call, data>>

\* --------------------------------------------------------------------- pow
\* if power == 0: return 1;  product = base
PowStart ==
    /\ Running("pow", "start")
    /\ IF Top.loc.power = 0
       THEN Leave(Fin(1, 0))
       ELSE /\ stack' = SetTop([Top EXCEPT !.pc = "loop",
                                           !.loc.product = Top.loc.base,
                                           !.loc.i = 1])
            /\ UNCHANGED out
    /\ UNCHANGED <<call, data>>

\* for i in range(1, power): product *= base
PowStep ==
    /\ Running("pow", "loop")
    /\ Top.loc.i < Top.loc.power
    /\ stack' = SetTop([Top EXCEPT !.loc.product = Top.loc.product * Top.loc.base,
                                   !.loc.i = Top.loc.i + 1])
    /\ UNCHANGED <<call, data, out>>

PowReturn ==
    /\ Running("pow", "loop")
    /\ ~(Top.loc.i < Top.loc.power)
    /\ Leave(Fin(Top.loc.product, 0))
    /\ UNCHANGED <<call, data>>

\* -------------------------------------------------------------------- sqrt
NewtonEnd == 18     \* for i in range(1, 18)

Max(x, y) == IF x > y THEN x ELSE y

\* b = root = (b + (a / b)) / 2, on a float b known to lie in [b.m, b.e] and
\* an int a >= 1.  The new interval holds every float the line can compute
\* from a b of the old one: the quotient and the sum are rounded outwards to
\* integers with one unit to spare (far more than a float rounding of values
\* that are at least 1), and no iterate is below 1, since (b + a/b)/2 >=
\* sqrt(a) >= 1 and rounding to nearest does not cross the float 1.
Newton(a, b) ==
    Between(Max(1, ((b.m + (a \div b.e)) \div 2) - 1),
            ((b.e + (a \div b.m) + 2) \div 2) + 1)

SqrtStep ==
    /\ Running("sqrt", "loop")
    /\ Top.loc.a # 0
    /\ Top.loc.i < NewtonEnd
    /\ stack' = SetTop([Top EXCEPT !.loc.b = Newton(Top.loc.a, Top.loc.b),
                                   !.loc.i = Top.loc.i + 1])
    /\ UNCHANGED <<call, data, out>>

\* if a == 0: return 0  ...  return root
SqrtReturn ==
    /\ Running("sqrt", "loop")
    /\ Top.loc.a = 0 \/ ~(Top.loc.i < NewtonEnd)
    /\ Leave(IF Top.loc.a = 0 THEN Fin(0, 0) ELSE Top.loc.b)
    /\ UNCHANGED <<call, data>>

\* --------------------------------------------------------------------- exp
\* LOG2E = 1.4426950408889634, to eight digits
LOG2E_NUM == 14426950
LOG2E_DEN == 10000000

\* int(n / d): Python's int() truncates towards zero
IntTrunc(n, d) == IF n >= 0 THEN n \div d ELSE -((-n) \div d)

\* k = int(a * LOG2E) for the finite a = m * 2^e.  a * LOG2E is irrational
\* for a # 0, and for the arguments of this model it is further than 1e-2
\* from every integer, so the eight digits (and the float rounding of the
\* product) cannot change the integer part.
ExpK(a) == IntTrunc(a.m * Pow2(a.e) * LOG2E_NUM, LOG2E_DEN * Pow2(-a.e))

\* if a == 0: return 1;  k = int(a * LOG2E);  the series in r = a - k * LN2
\* (floats only, no call, no exception);  then the call pow(2, k) of line 312
ExpCallPow ==
    /\ Running("exp", "start")
    /\ IF Top.loc.a.m = 0
       THEN Leave(Fin(1, 0))
       ELSE LET k == ExpK(Top.loc.a)
            IN  Enter("pow", <<Fin(2, 0), Fin(k, 0)>>,
                      SetTop([Top EXCEPT !.pc = "call_pow", !.loc.k = k]))
    /\ UNCHANGED <<call, data>>

\* return result * pow(2, k)
ExpReturn ==
    /\ Running("exp", "after_pow")
    /\ Leave(SeriesTimes(Top.loc.factor))
    /\ UNCHANGED <<call, data>>

\* ---------------------------------------------------------------------- ln
\* if a == 1: return 0;  exp = 0
LnStart ==
    /\ Running("ln", "start")
    /\ IF NumEq(Top.loc.a, Fin(1, 0))
       THEN Leave(Fin(0, 0))
       ELSE stack' = SetTop([Top EXCEPT !.pc = "halve"]) /\ UNCHANGED out
    /\ UNCHANGED <<call, data>>

\* while a > 2
LnHalveCond(a) == NumLt(Fin(2, 0), a)

\* a /= 2; exp += 1   (halving a float is exact)
LnHalve ==
    /\ Running("ln", "halve")
    /\ LnHalveCond(Top.loc.a)
    /\ stack' = SetTop([Top EXCEPT !.loc.a = Fin(Top.loc.a.m, Top.loc.a.e - 1),
                                   !.loc.exp = Top.loc.exp + 1])
    /\ UNCHANGED <<call, data, out>>

LnHalveDone ==
    /\ Running("ln", "halve")
    /\ ~LnHalveCond(Top.loc.a)
    /\ stack' = SetTop([Top EXCEPT !.pc = "double"])
    /\ UNCHANGED <<call, data, out>>

\* while a < 1: a *= 2; exp -= 1   (doubling a float is exact)
LnDouble ==
    /\ Running("ln", "double")
    /\ NumLt(Top.loc.a, Fin(1, 0))
    /\ stack' = SetTop([Top EXCEPT !.loc.a = Fin(Top.loc.a.m, Top.loc.a.e + 1),
                                   !.loc.exp = Top.loc.exp - 1])
    /\ UNCHANGED <<call, data, out>>

\* both range-reduction loops have finished
LnDoubleDone ==
    /\ Running("ln", "double")
    /\ ~NumLt(Top.loc.a, Fin(1, 0))
    /\ stack' = SetTop([Top EXCEPT !.pc = "reduced"])
    /\ UNCHANGED <<call, data, out>>

\* a -= 1; y = a; sum = y; i = 1; then the first test of `while abs(y) >
\* 1E-15`, whose call of abs asserts is_finite(y).  The series itself is
\* float arithmetic and is not modelled: the call stays in it.
LnSeries ==
    /\ Running("ln", "reduced")
    /\ LET y == NumSub(Top.loc.a, Fin(1, 0))
           p == Precondition("abs", <<y>>)
       IN  IF p = "ok"
           THEN stack' = SetTop([Top EXCEPT !.pc = "series", !.loc.a = y])
                /\ UNCHANGED out
           ELSE stack' = <<>> /\ out' = Raise(p)
    /\ UNCHANGED <<call, data>>

\* ------------------------------------------------------------------ median
\* InnerBound with a fault: every pass stops one comparison early
InnerBound_Short(size, i) == size - i - 2

\* for j in range(size - i - 1)
InnerBound(size, i) == size - i - 1

\* for i in range(size - 1)
OuterCond(size, i) == i < size - 1

Swap(d, p, q) == [d EXCEPT ![p] = d[q], ![q] = d[p]]

\* if data[j] > data[j + 1]: swap them   (the list is 1-based here)
MedianCompare ==
    /\ Running("median", "sort")
    /\ OuterCond(Top.loc.size, Top.loc.i)
    /\ Top.loc.j < InnerBound(Top.loc.size, Top.loc.i)
    /\ data' = IF data[Top.loc.j + 1] > data[Top.loc.j + 2]
               THEN Swap(data, Top.loc.j + 1, Top.loc.j + 2)
               ELSE data
    /\ stack' = SetTop([Top EXCEPT !.loc.j = Top.loc.j + 1])
    /\ UNCHANGED <<call, out>>

MedianNextPass ==
    /\ Running("median", "sort")
    /\ OuterCond(Top.loc.size, Top.loc.i)
    /\ ~(Top.loc.j < InnerBound(Top.loc.size, Top.loc.i))
    /\ stack' = SetTop([Top EXCEPT !.loc.i = Top.loc.i + 1, !.loc.j = 0])
    /\ UNCHANGED <<call, data, out>>

\* (data[size // 2 - 1] + data[size // 2]) / 2 for an even size, else
\* data[size // 2]; halving an int sum is exact in a float
MedianValue(d, size) ==
    IF size % 2 = 0
    THEN Fin(d[size \div 2] + d[(size \div 2) + 1], -1)
    ELSE Fin(d[(size \div 2) + 1], 0)

MedianReturn ==
    /\ Running("median", "sort")
    /\ ~OuterCond(Top.loc.size, Top.loc.i)
    /\ Leave(MedianValue(data, Top.loc.size))
    /\ UNCHANGED <<call, data>>

\* -------------------------------------------------------------------- mode
\* Exceeds with a fault: a run as long as the longest so far replaces it
Exceeds_OrEqual(current_count, max_count) == current_count >= max_count

\* if current_count > max_count
Exceeds(current_count, max_count) == current_count > max_count

\* for i in range(1, len(data)): compare data[i] with data[i - 1]
ModeStep ==
    /\ Running("mode", "scan")
    /\ Top.loc.i < Len(data)
    /\ LET l == Top.loc
           i == l.i
       IN  stack' = SetTop([Top EXCEPT !.loc =
               IF data[i + 1] = data[i]
               THEN [l EXCEPT !.current_count = l.current_count + 1, !.i = i + 1]
               ELSE IF Exceeds(l.current_count, l.max_count)
                    THEN [l EXCEPT !.max_count = l.current_count, !.mode = data[i],
                                   !.current_count = 1, !.i = i + 1]
                    ELSE [l EXCEPT !.current_count = 1, !.i = i + 1]])
    /\ UNCHANGED <<call, data, out>>

\* if current_count > max_count: mode = data[-1];  return mode
ModeReturn ==
    /\ Running("mode", "scan")
    /\ ~(Top.loc.i < Len(data))
    /\ Leave(Fin(IF Exceeds(Top.loc.current_count, Top.loc.max_count)
                 THEN data[Len(data)] ELSE Top.loc.mode, 0))
    /\ UNCHANGED <<call, data>>

Init ==
    /\ call = [fn |-> "none", args |-> <<>>]
    /\ stack = <<>>
    /\ data = <<>>
    /\ out = Pending

Next ==
    \/ \E f \in Classifiers, x \in Scalars : CallClassifier(f, x)
    \/ \E f \in ScalarFns : \E xs \in ArgsOf(f) : CallScalar(f, xs)
    \/ \E f \in {"median", "mode"}, d \in Lists : CallStat(f, d)
    \/ GcdStep
    \/ GcdReturn
    \/ LcmCallGcd
    \/ LcmReturn
    \/ PowStart
    \/ PowStep
    \/ PowReturn
    \/ SqrtStep
    \/ SqrtReturn
    \/ ExpCallPow
    \/ ExpReturn
    \/ LnStart
    \/ LnHalve
    \/ LnHalveDone
    \/ LnDouble
    \/ LnDoubleDone
    \/ LnSeries
    \/ MedianCompare
    \/ MedianNextPass
    \/ MedianReturn
    \/ ModeStep
    \/ ModeReturn

Spec == Init /\ [][Next]_vars

\* ------------------------------------------------------------ the properties
Done == out.kind # "none"
IsFin(x) == x.k = "fin"
Arg(i) == call.args[i]

Divides(d, n) == n % d = 0
\* the greatest common divisor of the naturals x and y, 0 for x = y = 0
MathGcd(x, y) ==
    IF x = 0 /\ y = 0 THEN 0
    ELSE CHOOSE d \in 1 .. Max(x, y) :
            /\ (x # 0 => Divides(d, x)) /\ (y # 0 => Divides(d, y))
            /\ \A c \in d + 1 .. Max(x, y) :
                   ~((x # 0 => Divides(c, x)) /\ (y # 0 => Divides(c, y)))
\* the least common multiple of the positive naturals x and y
MathLcm(x, y) ==
    CHOOSE l \in 1 .. x * y :
        /\ Divides(x, l) /\ Divides(y, l)
        /\ \A c \in 1 .. l - 1 : ~(Divides(x, c) /\ Divides(y, c))

RECURSIVE IntPow(_, _)
IntPow(base, n) == IF n = 0 THEN 1 ELSE base * IntPow(base, n - 1)

IsSorted(d) == \A p \in 1 .. Len(d) - 1 : d[p] <= d[p + 1]
Occurrences(d, v) == Cardinality({p \in 1 .. Len(d) : d[p] = v})
IsPermutation(d, d0) ==
    Len(d) = Len(d0) /\ \A v \in 1 .. MaxVal : Occurrences(d, v) = Occurrences(d0, v)
AtMost(d, v) == Cardinality({p \in 1 .. Len(d) : d[p] <= v})
AtLeast(d, v) == Cardinality({p \in 1 .. Len(d) : d[p] >= v})

\* runs of adjacent equal elements
RunStarts(d) == {p \in 1 .. Len(d) : p = 1 \/ d[p - 1] # d[p]}
RECURSIVE RunLen(_, _)
RunLen(d, p) == IF p < Len(d) /\ d[p + 1] = d[p] THEN 1 + RunLen(d, p + 1) ELSE 1
EarliestLongestRun(d) ==
    CHOOSE p \in RunStarts(d) :
        /\ \A q \in RunStarts(d) : RunLen(d, q) <= RunLen(d, p)
        /\ \A q \in RunStarts(d) : q < p => RunLen(d, q) < RunLen(d, p)

\* C1: is_finite(a) returns, without failing, True for every finite a (zero
\* included) and False for NaN and the infinities.
C1_IsFiniteClassifiesEveryNumber ==
    call.fn = "is_finite" => out = Ret(PyBool(IsFin(Arg(1))))

\* C2: a call of a function with scalar arguments in which some argument is
\* NaN or an infinity ends with an exception raised by the assert, before
\* the body starts and without a value returned.
C2_NonFiniteArgumentFails ==
    (call.fn \in ScalarFns /\ \E p \in 1 .. Len(call.args) : Arg(p) \in NonFinite)
        => (out.kind = "raise" /\ stack = <<>>)

\* a later argument is NaN after finite non-zero ones
C2_Witness ==
    /\ call.fn = "clamp"
    /\ IsFin(Arg(1)) /\ Arg(1).m # 0 /\ IsFin(Arg(2)) /\ Arg(2).m # 0 /\ Arg(3) = NaN
    /\ out = Raise("AssertionError")

\* C3: when median(data) has returned, data is sorted, is a permutation of
\* the list passed, and the value is the middle element (odd length) or the
\* mean of the two middle elements (even length): the median of the list.
C3_MedianSortsAndReturnsMiddle ==
    (call.fn = "median" /\ out.kind = "ret") =>
        LET n == Len(data)
            h == n \div 2
        IN  /\ IsSorted(data)
            /\ IsPermutation(data, call.args)
            /\ IF n % 2 = 1
               THEN /\ out.val = Fin(data[h + 1], 0)
                    /\ AtMost(call.args, out.val.m) >= h + 1
                    /\ AtLeast(call.args, out.val.m) >= h + 1
               ELSE /\ IsFin(out.val)
                    /\ NumEq(out.val, Fin(data[h] + data[h + 1], -1))
                    /\ AtMost(call.args, data[h]) >= h
                    /\ AtLeast(call.args, data[h + 1]) >= h

\* an unsorted list of even length, at least 4, has been sorted
C3_Witness ==
    /\ call.fn = "median" /\ out.kind = "ret"
    /\ Len(call.args) >= 4 /\ Len(call.args) % 2 = 0
    /\ ~IsSorted(call.args)
    /\ call.args[1] > call.args[Len(call.args)]

\* C4: for a sorted non-empty list, mode returns the value of the earliest
\* of the longest runs of adjacent equal elements and leaves the list as it
\* was.
C4_ModeIsEarliestLongestRun ==
    (call.fn = "mode" /\ out.kind = "ret" /\ IsSorted(call.args)) =>
        /\ data = call.args
        /\ out.val = Fin(data[EarliestLongestRun(call.args)], 0)

\* two runs tie for the longest, of length at least 2, and the first wins
C4_Witness ==
    /\ call.fn = "mode" /\ out.kind = "ret" /\ IsSorted(call.args)
    /\ \E p, q \in RunStarts(call.args) :
          /\ p < q
          /\ RunLen(call.args, p) = RunLen(call.args, q)
          /\ RunLen(call.args, p) >= 2
          /\ p = EarliestLongestRun(call.args)
          /\ out.val = Fin(call.args[p], 0)

\* C5: for all integers a and b, zero included, gcd(a, b) returns the
\* greatest common divisor of |a| and |b| (gcd(0, 0) = 0, gcd(a, 0) = |a|).
C5_GcdOfAllIntegers ==
    (call.fn = "gcd" /\ IsFin(Arg(1)) /\ IsFin(Arg(2)) /\ Done) =>
        out = Ret(Fin(MathGcd(AbsInt(Arg(1).m), AbsInt(Arg(2).m)), 0))

NonZeroInts == IsFin(Arg(1)) /\ IsFin(Arg(2)) /\ Arg(1).m # 0 /\ Arg(2).m # 0

\* C6 as stated: for non-zero integers a and b, lcm(a, b) has the magnitude
\* of the least common multiple of |a| and |b| and the sign of a * b.
C6_LcmKeepsSignOfProduct ==
    (call.fn = "lcm" /\ NonZeroInts /\ Done) =>
        /\ out.kind = "ret"
        /\ AbsInt(out.val.m) = MathLcm(AbsInt(Arg(1).m), AbsInt(Arg(2).m))
        /\ (out.val.m < 0 <=> Arg(1).m * Arg(2).m < 0)

\* C6 amended: for non-zero integers a and b, lcm(a, b) returns the least
\* common multiple of |a| and |b|, positive whatever the signs of a and b.
C6_LcmIsPositive ==
    (call.fn = "lcm" /\ NonZeroInts /\ Done) =>
        /\ out = Ret(Fin(MathLcm(AbsInt(Arg(1).m), AbsInt(Arg(2).m)), 0))
        /\ out.val.m > 0

\* exactly one argument is negative and the result is positive
C6_Witness ==
    /\ call.fn = "lcm" /\ NonZeroInts
    /\ Arg(1).m = -4 /\ Arg(2).m = 6
    /\ out = Ret(Fin(12, 0))

\* C7: for a finite base and a power >= 0, pow returns the product of power
\* copies of base, and 1 for power = 0 whatever the base.
C7_PowIsRepeatedProduct ==
    (call.fn = "pow" /\ IsFin(Arg(1)) /\ IsFin(Arg(2)) /\ Arg(2).m >= 0 /\ Done) =>
        out = Ret(Fin(IntPow(Arg(1).m, Arg(2).m), 0))

\* C8: for a finite a in [0, 1e12], sqrt(0) returns 0 and the root r that
\* sqrt(a) returns has |r * r - a| <= 1e-9 * max(1, a).  For the int a of
\* this model the tolerance is below 3, so some r of the interval the root
\* lies in must have a - 3 < r * r < a + 3.
C8_SqrtWithinTolerance ==
    (call.fn = "sqrt" /\ IsFin(Arg(1)) /\ Arg(1).m >= 0 /\ Done) =>
        /\ out.kind = "ret"
        /\ (Arg(1).m = 0 => out.val = Fin(0, 0))
        /\ (Arg(1).m > 0 =>
               /\ out.val.k = "between"
               /\ out.val.m * out.val.m < Arg(1).m + 3
               /\ out.val.e * out.val.e > Arg(1).m - 3)

\* floor(a * log2(e)) for the finite a, as ExpK computes int(a * LOG2E)
FloorK(a) ==
    LET t == ExpK(a)
    IN  IF a.m < 0 /\ a.m * Pow2(a.e) * LOG2E_NUM # t * LOG2E_DEN * Pow2(-a.e)
        THEN t - 1 ELSE t

\* C9: for a finite a # 0, exp takes k = floor(a * log2(e)), its call of
\* pow(2, k) completes for every such k, negative and zero included, and
\* the factor it multiplies the series by is 2^k.
C9_ExpScalesByPowerOfTwo ==
    (call.fn = "exp" /\ IsFin(Arg(1)) /\ Arg(1).m # 0 /\ Done) =>
        LET k == ExpK(Arg(1))
        IN  /\ k = FloorK(Arg(1))
            /\ out.kind = "ret"
            /\ out.val.k = "series_times"
            /\ out.val.m * Pow2(-k) = Pow2(k)

\* C10: when both range-reduction loops of ln have finished, the reduced
\* argument is in [1, 2), never 2, and the argument passed is the reduced
\* one times 2^exp.
C10_LnReducesIntoHalfOpenInterval ==
    Running("ln", "reduced") =>
        /\ ~NumLt(Top.loc.a, Fin(1, 0))
        /\ NumLt(Top.loc.a, Fin(2, 0))
        /\ NumEq(Arg(1), Fin(Top.loc.a.m, Top.loc.a.e + Top.loc.exp))
====
